---- MODULE Spec2Model ----
(***************************************************************************)
(* Encryption-Data-Analysis: the benchmark script (src/Project.py) and the *)
(* dashboard generator (src/Dashboard.py) as state machines.               *)
(*                                                                         *)
(* Times are natural numbers of microseconds (1e-6 s), which is also the   *)
(* quantum of the 6-decimal rounding the aggregation applies.              *)
(***************************************************************************)
EXTENDS Integers, Sequences, FiniteSets, TLC

VARIABLES
    csv,        \* ./emails.csv as the script finds it
    pc,         \* position of the benchmark script
    emails,     \* the message corpus after loading
    synthetic,  \* TRUE once "using dummy data" was printed
    i,          \* enumerate() index of the current email (0-based)
    j,          \* index of the current adapter in the adapter list (1-based)
    now,        \* wall clock, microseconds
    busy,       \* TRUE once the machine is loaded: timed steps then run longer
    samples,    \* time.time() samples taken in the current adapter call
    trace,      \* steps executed by the current adapter call, in order
    ctSize,     \* ciphertext size computed by the current adapter call
    results,    \* the list `results`
    summary,    \* avg_results, one row per algorithm
    error,      \* the uncaught exception that ended the script, if any
    fs,         \* names of the files that exist in the working directory
    dpc,        \* position of generate_encryption_dashboard
    dfDetailed, \* file df_detailed was read from ("none" before)
    dfSummary,  \* file df_summary was read from ("none" before)
    written,    \* files this dashboard run has written
    dout        \* messages the dashboard printed

vars == <<csv, pc, emails, synthetic, i, j, now, busy, samples, trace,
          ctSize, results, summary, error, fs, dpc, dfDetailed, dfSummary, written, dout>>

benchVars == <<csv, pc, emails, synthetic, i, j, now, busy, samples, trace,
               ctSize, summary, error>>

dashVars == <<dpc, dfDetailed, dfSummary, written, dout>>

----------------------------------------------------------------------------
(* Bounds of the model *)

MaxRows == 2
MaxLen == 2
MaxRecs == 3

----------------------------------------------------------------------------
(* Program constants *)

HeadLimit == 20
SyntheticCount == 20
SyntheticPrefixLen == 29
SyntheticChunkLen == 13
SyntheticChunks == 20
AesBlockSize == 16
AesKeyBytes == 16
RsaKeyBits == 2048
KyberKeyBits == 1536
McElieceKeyBits == 1357824
KyberOverhead == 100
KyberEncDelay == 3000
KyberDecDelay == 2000
McElieceEncDelay == 5000
McElieceDecDelay == 8000
Decimals == 6

Scale == 10 ^ Decimals

----------------------------------------------------------------------------
(* Messages and the input file *)

Text(c, b) == [kind |-> "text", chars |-> c, bytes |-> b]
NaNCell == [kind |-> "nan", chars |-> 0, bytes |-> 0]
NumCell == [kind |-> "num", chars |-> 0, bytes |-> 0]

\* ASCII texts of every length up to MaxLen, and one two-byte character.
TextCells == {Text(c, c) : c \in 0..MaxLen} \cup {Text(1, 2)}

SeqsUpTo(S, n) == UNION {[1..k -> S] : k \in 0..n}

CsvFiles ==
    {[status |-> s, rows |-> <<>>] : s \in {"missing", "unreadable", "nocolumn"}}
    \cup {[status |-> "ok", rows |-> r] : r \in SeqsUpTo(TextCells \cup {NaNCell}, MaxRows)}
    \cup {[status |-> "ok", rows |-> r] : r \in SeqsUpTo({NumCell, NaNCell}, MaxRows)}

IsNotNaN(c) == c.kind # "nan"

DropNa(rows) == SelectSeq(rows, IsNotNaN)

HeadRows(s, n) == SubSeq(s, 1, IF Len(s) < n THEN Len(s) ELSE n)

DigitCount(n) == IF n < 10 THEN 1 ELSE 2

SyntheticLen(n) == SyntheticPrefixLen + SyntheticChunkLen * SyntheticChunks + DigitCount(n)

SyntheticEmails ==
    [k \in 1..SyntheticCount |-> Text(SyntheticLen(k - 1), SyntheticLen(k - 1))]

----------------------------------------------------------------------------
(* The adapters *)

Adapters == <<"AES", "RSA", "Kyber", "McEliece">>

AdapterCount == Len(Adapters)

AesSize(text) == AesBlockSize * ((text.bytes \div AesBlockSize) + 1)

RsaSize(text) == text.bytes + (RsaKeyBits \div 8)

KyberSize(text) == text.chars + KyberOverhead

McElieceSizeRounded(text) == ((text.chars * 18) + 5) \div 10

McElieceSize(text) == (text.chars * 18) \div 10

CiphertextSize(name, text) ==
    CASE name = "AES" -> AesSize(text)
      [] name = "RSA" -> RsaSize(text)
      [] name = "Kyber" -> KyberSize(text)
      [] name = "McEliece" -> McElieceSize(text)

KeySizeBitsPerMessage(name, text) ==
    CASE name = "AES" -> (AesKeyBytes + text.chars) * 8
      [] name = "RSA" -> RsaKeyBits
      [] name = "Kyber" -> KyberKeyBits
      [] name = "McEliece" -> McElieceKeyBits

KeySizeBits(name, text) ==
    CASE name = "AES" -> AesKeyBytes * 8
      [] name = "RSA" -> RsaKeyBits
      [] name = "Kyber" -> KyberKeyBits
      [] name = "McEliece" -> McElieceKeyBits

QuantumResistant(name) == name \in {"Kyber", "McEliece"}

BestUseCase(name) ==
    CASE name = "AES" -> "Bulk Data Encryption"
      [] name = "RSA" -> "Secure Key Exchange"
      [] name = "Kyber" -> "Post-Quantum TLS"
      [] name = "McEliece" -> "Post-Quantum Secure Messaging"

\* Least time the timed encryption / decryption step of an adapter takes.
EncBase(name) ==
    CASE name = "Kyber" -> KyberEncDelay
      [] name = "McEliece" -> McElieceEncDelay
      [] OTHER -> 0

DecBase(name) ==
    CASE name = "Kyber" -> KyberDecDelay
      [] name = "McEliece" -> McElieceDecDelay
      [] OTHER -> 0

\* text.encode() and len(text) raise on a value that is not a str.
Raises(text) == text.kind # "text"

\* The order of the statements of one adapter call.
AdapterSteps ==
    <<"start_encrypt", "encrypt", "end_encrypt",
      "start_decrypt", "decrypt", "end_decrypt">>

AdapterStepsSwapped ==
    <<"start_encrypt", "encrypt", "start_decrypt",
      "end_encrypt", "decrypt", "end_decrypt">>

StepAfterSwapped(step) ==
    CASE step = "call" -> AdapterStepsSwapped[1]
      [] step = AdapterStepsSwapped[Len(AdapterStepsSwapped)] -> "append"
      [] OTHER -> AdapterStepsSwapped[1 + CHOOSE k \in 1..Len(AdapterStepsSwapped) :
                                           AdapterStepsSwapped[k] = step]

StepAfter(step) ==
    CASE step = "call" -> AdapterSteps[1]
      [] step = AdapterSteps[Len(AdapterSteps)] -> "append"
      [] OTHER -> AdapterSteps[1 + CHOOSE k \in 1..Len(AdapterSteps) :
                                   AdapterSteps[k] = step]

NewRecordZeroBased(idx, name, text, size, s) ==
    [id |-> idx, alg |-> name, size |-> size,
     enc |-> s[2] - s[1], dec |-> s[4] - s[3],
     key |-> KeySizeBits(name, text), qr |-> QuantumResistant(name),
     use |-> BestUseCase(name)]

\* The dict the adapter returns, with 'Email ID' and 'Algorithm' added.
NewRecord(idx, name, text, size, s) ==
    [id |-> idx + 1, alg |-> name, size |-> size,
     enc |-> s[2] - s[1], dec |-> s[4] - s[3],
     key |-> KeySizeBits(name, text), qr |-> QuantumResistant(name),
     use |-> BestUseCase(name)]

NoError == [kind |-> "none", id |-> 0, alg |-> "none"]

----------------------------------------------------------------------------
(* Aggregation: groupby('Algorithm').mean(), first-occurrence metadata,     *)
(* round(6)                                                                 *)

RECURSIVE SumOf(_, _)
SumOf(recs, f) == IF recs = <<>> THEN 0 ELSE recs[1][f] + SumOf(Tail(recs), f)

\* a / b to the nearest integer, ties to the even one (a >= 0, b > 0).
RoundHalfEven(a, b) ==
    LET q == a \div b
        r == a % b
    IN  IF 2 * r < b THEN q
        ELSE IF 2 * r > b THEN q + 1
        ELSE IF q % 2 = 0 THEN q ELSE q + 1

\* num / den rounded to 6 decimals: whole part and millionths.
Round6(num, den) ==
    LET w == num \div den
        m == RoundHalfEven((num % den) * Scale, den)
    IN  IF m = Scale THEN [whole |-> w + 1, micro |-> 0]
        ELSE [whole |-> w, micro |-> m]

GroupOf(recs, a) == SelectSeq(recs, LAMBDA r : r.alg = a)

\* groupby sorts the group keys.
GroupOrder == <<"AES", "Kyber", "McEliece", "RSA">>

AlgsPresent(recs) == {recs[k].alg : k \in 1..Len(recs)}

GroupKeys(recs) == SelectSeq(GroupOrder, LAMBDA a : a \in AlgsPresent(recs))

MeanOverAll(recs, a, f) == Round6(SumOf(GroupOf(recs, a), f), Len(recs))

\* Mean of a column over one group, rounded to 6 decimals.
Mean(recs, a, f) == Round6(SumOf(GroupOf(recs, a), f), Len(GroupOf(recs, a)))

\* The same for a column of times, which are already in millionths.
MeanTime(recs, a, f) == RoundHalfEven(SumOf(GroupOf(recs, a), f), Len(GroupOf(recs, a)))

SummaryRow(recs, a) ==
    [alg |-> a,
     enc |-> MeanTime(recs, a, "enc"),
     dec |-> MeanTime(recs, a, "dec"),
     qr |-> GroupOf(recs, a)[1].qr,
     use |-> GroupOf(recs, a)[1].use,
     size |-> Mean(recs, a, "size"),
     key |-> Mean(recs, a, "key")]

Aggregate(recs) == [k \in 1..Len(GroupKeys(recs)) |-> SummaryRow(recs, GroupKeys(recs)[k])]

----------------------------------------------------------------------------
(* Files *)

OriginalDetailed == "encryption_detailed_results.csv"
OriginalSummary == "encryption_summary.csv"
BenchDetailed == "encryption_benchmark_detailed.csv"
BenchSummary == "encryption_benchmark_summary.csv"

InputFiles == {OriginalDetailed, OriginalSummary, BenchDetailed, BenchSummary}

Figures ==
    <<"enc_dec_time_comparison.png", "key_cipher_size_comparison.png",
      "encryption_time_distribution.png", "security_performance_tradeoff.png">>

PdfFile == "encryption_algorithms_dashboard.pdf"

OutputFiles == {Figures[k] : k \in 1..Len(Figures)} \cup {PdfFile}

----------------------------------------------------------------------------
(* The benchmark script *)

DashIdle ==
    /\ dpc = "idle"
    /\ dfDetailed = "none"
    /\ dfSummary = "none"
    /\ written = {}
    /\ dout = <<>>

BenchStart ==
    /\ emails = <<>>
    /\ synthetic = FALSE
    /\ i = 0
    /\ j = 1
    /\ now = 0
    /\ busy = FALSE
    /\ samples = <<>>
    /\ trace = <<>>
    /\ ctSize = 0
    /\ summary = <<>>
    /\ error = NoError

Init ==
    /\ csv \in CsvFiles
    /\ pc = "load"
    /\ results = <<>>
    /\ BenchStart
    /\ fs = {}
    /\ DashIdle

Abort(kind, id, alg) ==
    /\ pc' = "aborted"
    /\ error' = [kind |-> kind, id |-> id, alg |-> alg]

\* try: read_csv, df['message'].dropna().head(20); except FileNotFoundError
LoadCorpus ==
    /\ pc = "load"
    /\ \/ /\ csv.status = "ok"
          /\ emails' = HeadRows(DropNa(csv.rows), HeadLimit)
          /\ pc' = "loop"
          /\ UNCHANGED <<synthetic, error>>
       \/ /\ csv.status = "missing"
          /\ emails' = SyntheticEmails
          /\ synthetic' = TRUE
          /\ pc' = "loop"
          /\ UNCHANGED error
       \/ /\ csv.status \in {"unreadable", "nocolumn"}
          /\ Abort("load", 0, "none")
          /\ UNCHANGED <<emails, synthetic>>
    /\ UNCHANGED <<csv, i, j, now, busy, samples, trace, ctSize, results,
                   summary, fs, dashVars>>

\* for i, email in enumerate(emails)
ForEmail ==
    /\ pc = "loop"
    /\ IF i < Len(emails)
          THEN /\ j' = 1
               /\ pc' = "call"
          ELSE /\ pc' = "aggregate"
               /\ UNCHANGED j
    /\ UNCHANGED <<csv, emails, synthetic, i, now, busy, samples, trace,
                   ctSize, results, summary, error, fs, dashVars>>

\* result = func(email): entry of the adapter, key material is set up
Call ==
    /\ pc = "call"
    /\ samples' = <<>>
    /\ trace' = <<>>
    /\ ctSize' = 0
    /\ pc' = StepAfter("call")
    /\ UNCHANGED <<csv, emails, synthetic, i, j, now, busy, results,
                   summary, error, fs, dashVars>>

\* start_encrypt / end_encrypt / start_decrypt / end_decrypt = time.time()
SampleClock ==
    /\ pc \in {"start_encrypt", "end_encrypt", "start_decrypt", "end_decrypt"}
    /\ samples' = Append(samples, now)
    /\ trace' = Append(trace, pc)
    /\ pc' = StepAfter(pc)
    /\ UNCHANGED <<csv, emails, synthetic, i, j, now, busy, ctSize, results,
                   summary, error, fs, dashVars>>

\* A timed step takes its least duration, or one microsecond more once the
\* machine is loaded; the load may set in at any timed step and then stays.
Elapse(base) ==
    \E b \in {busy, TRUE} :
        /\ busy' = b
        /\ now' = now + base + (IF b THEN 1 ELSE 0)

\* the encryption step; text.encode() / len(text) raise on a non-str message
Encrypt ==
    /\ pc = "encrypt"
    /\ IF Raises(emails[i + 1])
          THEN /\ Abort("trial", i + 1, Adapters[j])
               /\ UNCHANGED <<now, busy, ctSize, trace>>
          ELSE /\ Elapse(EncBase(Adapters[j]))
               /\ ctSize' = CiphertextSize(Adapters[j], emails[i + 1])
               /\ trace' = Append(trace, pc)
               /\ pc' = StepAfter(pc)
               /\ UNCHANGED error
    /\ UNCHANGED <<csv, emails, synthetic, i, j, samples, results, summary,
                   fs, dashVars>>

\* the decryption step
Decrypt ==
    /\ pc = "decrypt"
    /\ Elapse(DecBase(Adapters[j]))
    /\ trace' = Append(trace, pc)
    /\ pc' = StepAfter(pc)
    /\ UNCHANGED <<csv, emails, synthetic, i, j, samples, ctSize, results,
                   summary, error, fs, dashVars>>

\* return {...}; results.append({...}); next adapter or next email
AppendResult ==
    /\ pc = "append"
    /\ results' = Append(results,
                         NewRecord(i, Adapters[j], emails[i + 1], ctSize, samples))
    /\ IF j < AdapterCount
          THEN /\ j' = j + 1
               /\ pc' = "call"
               /\ UNCHANGED i
          ELSE /\ i' = i + 1
               /\ pc' = "loop"
               /\ UNCHANGED j
    /\ UNCHANGED <<csv, emails, synthetic, now, busy, samples, trace, ctSize,
                   summary, error, fs, dashVars>>

\* DataFrame(results), groupby('Algorithm') ... avg_results[final_cols]
AggregateResults ==
    /\ pc = "aggregate"
    /\ IF results = <<>>
          THEN /\ Abort("aggregate", 0, "none")
               /\ UNCHANGED summary
          ELSE /\ summary' = Aggregate(results)
               /\ pc' = "save"
               /\ UNCHANGED error
    /\ UNCHANGED <<csv, emails, synthetic, i, j, now, busy, samples, trace,
                   ctSize, results, fs, dashVars>>

\* df_results.to_csv(...); avg_results.to_csv(...); the closing prints
SaveTables ==
    /\ pc = "save"
    /\ fs' = fs \cup {BenchDetailed, BenchSummary}
    /\ pc' = "done"
    /\ UNCHANGED <<csv, emails, synthetic, i, j, now, busy, samples, trace,
                   ctSize, results, summary, error, dashVars>>

Next ==
    \/ LoadCorpus
    \/ ForEmail
    \/ Call
    \/ SampleClock
    \/ Encrypt
    \/ Decrypt
    \/ AppendResult
    \/ AggregateResults
    \/ SaveTables

Spec == Init /\ [][Next]_vars

----------------------------------------------------------------------------
(* The aggregation block on its own: it is applied to a DataFrame of        *)
(* records, here any short sequence of records.                             *)

AggAlgs == {"AES", "Kyber"}

AggMeasures ==
    {[enc |-> 0, dec |-> 1, size |-> 16],
     [enc |-> 1, dec |-> 0, size |-> 33],
     [enc |-> 2, dec |-> 2, size |-> 116]}

AggStatics(a) ==
    LET true == [key |-> KeySizeBits(a, Text(0, 0)), qr |-> QuantumResistant(a),
                 use |-> BestUseCase(a)]
    IN  {true,
         [true EXCEPT !.key = 2 * @],
         [true EXCEPT !.qr = ~@],
         [true EXCEPT !.use = "Other"]}

AggRecord(k, a, m, st) ==
    [id |-> k, alg |-> a, size |-> m.size, enc |-> m.enc, dec |-> m.dec,
     key |-> st.key, qr |-> st.qr, use |-> st.use]

AggRecords(k) ==
    UNION {{AggRecord(k, a, m, st) : m \in AggMeasures, st \in AggStatics(a)}
           : a \in AggAlgs}

AggInputs ==
    UNION {{r \in [1..n -> UNION {AggRecords(k) : k \in 1..n}] :
               \A k \in 1..n : r[k].id = k}
           : n \in 0..MaxRecs}

InitAgg ==
    /\ csv = [status |-> "ok", rows |-> <<>>]
    /\ pc = "aggregate"
    /\ results \in AggInputs
    /\ BenchStart
    /\ fs = {}
    /\ DashIdle

NextAgg ==
    \/ AggregateResults
    \/ SaveTables

SpecAgg == InitAgg /\ [][NextAgg]_vars

----------------------------------------------------------------------------
(* generate_encryption_dashboard *)

\* Where a successful read_csv leads.
OnRead(step) ==
    CASE step = "orig_detailed" -> "orig_summary"
      [] step = "orig_summary" -> "figures"
      [] step = "bench_detailed" -> "bench_summary"
      [] step = "bench_summary" -> "figures"

OnMissingSummaryOnly(step) ==
    CASE step = "orig_detailed" -> "bench_detailed"
      [] step = "orig_summary" -> "bench_summary"
      [] step = "bench_detailed" -> "returned"
      [] step = "bench_summary" -> "returned"

\* Where a FileNotFoundError leads: the except clause of the enclosing try.
OnMissing(step) ==
    CASE step = "orig_detailed" -> "bench_detailed"
      [] step = "orig_summary" -> "bench_detailed"
      [] step = "bench_detailed" -> "returned"
      [] step = "bench_summary" -> "returned"

FileOf(step) ==
    CASE step = "orig_detailed" -> OriginalDetailed
      [] step = "orig_summary" -> OriginalSummary
      [] step = "bench_detailed" -> BenchDetailed
      [] step = "bench_summary" -> BenchSummary

MissingMessage(step) ==
    IF step \in {"orig_detailed", "orig_summary"}
       THEN "Original files not found, trying benchmark files..."
       ELSE "No benchmark data found. Please run the benchmark script first."

LoadedMessage(step) ==
    IF step = "orig_summary" THEN "Successfully loaded original data files"
                             ELSE "Successfully loaded benchmark data"

BenchOff ==
    /\ csv = [status |-> "missing", rows |-> <<>>]
    /\ pc = "off"
    /\ results = <<>>
    /\ BenchStart

InitDash ==
    /\ BenchOff
    /\ fs \in SUBSET (InputFiles \cup OutputFiles)
    /\ dpc = "orig_detailed"
    /\ dfDetailed = "none"
    /\ dfSummary = "none"
    /\ written = {}
    /\ dout = <<>>

\* df_detailed = pd.read_csv(...)
ReadDetailed ==
    /\ dpc \in {"orig_detailed", "bench_detailed"}
    /\ IF FileOf(dpc) \in fs
          THEN /\ dfDetailed' = FileOf(dpc)
               /\ dpc' = OnRead(dpc)
               /\ UNCHANGED dout
          ELSE /\ dout' = Append(dout, MissingMessage(dpc))
               /\ dpc' = OnMissing(dpc)
               /\ UNCHANGED dfDetailed
    /\ UNCHANGED <<benchVars, results, fs, dfSummary, written>>

\* df_summary = pd.read_csv(...)
ReadSummary ==
    /\ dpc \in {"orig_summary", "bench_summary"}
    /\ IF FileOf(dpc) \in fs
          THEN /\ dfSummary' = FileOf(dpc)
               /\ dout' = Append(dout, LoadedMessage(dpc))
               /\ dpc' = OnRead(dpc)
          ELSE /\ dout' = Append(dout, MissingMessage(dpc))
               /\ dpc' = OnMissing(dpc)
               /\ UNCHANGED dfSummary
    /\ UNCHANGED <<benchVars, results, fs, dfDetailed, written>>

\* plt.savefig(...), one chart after the other
SaveFigure ==
    /\ dpc = "figures"
    /\ LET k == Cardinality(written) + 1
       IN  /\ fs' = fs \cup {Figures[k]}
           /\ written' = written \cup {Figures[k]}
           /\ dpc' = IF k = Len(Figures) THEN "pdf" ELSE "figures"
    /\ UNCHANGED <<benchVars, results, dfDetailed, dfSummary, dout>>

\* doc.build(content)
BuildPdf ==
    /\ dpc = "pdf"
    /\ fs' = fs \cup {PdfFile}
    /\ written' = written \cup {PdfFile}
    /\ dout' = Append(dout, "PDF dashboard saved")
    /\ dpc' = "done"
    /\ UNCHANGED <<benchVars, results, dfDetailed, dfSummary>>

NextDash ==
    \/ ReadDetailed
    \/ ReadSummary
    \/ SaveFigure
    \/ BuildPdf

SpecDash == InitDash /\ [][NextDash]_vars

----------------------------------------------------------------------------
(* Properties of the benchmark loop *)

AdapterOrder == <<"AES", "RSA", "Kyber", "McEliece">>

LoopOver == pc \in {"aggregate", "save", "done"}

\* C1: the records collected so far are at every point a prefix of the
\* message-major, algorithm-minor sequence (the record at 0-based position
\* 4*(m-1)+(a-1) has Email ID m and the a-th adapter's name), and a run whose
\* loop has ended holds exactly 4 records per message.
C1_MessageMajorOrder ==
    /\ \A k \in 1..Len(results) :
          /\ results[k].id = ((k - 1) \div 4) + 1
          /\ results[k].alg = AdapterOrder[((k - 1) % 4) + 1]
    /\ Len(results) <= 4 * Len(emails)
    /\ LoopOver => Len(results) = 4 * Len(emails)

C1_Witness ==
    /\ pc = "done"
    /\ Len(emails) = 2
    /\ Len(results) = 8

\* C2: a failing adapter call drops only its own record; the run is never
\* ended by it.
C2_TrialFailureNotFatal == ~(pc = "aborted" /\ error.kind = "trial")

\* C4: an empty corpus is not an error: no records, an empty summary, and the
\* script completes.
C4_EmptyCorpusCompletes ==
    (pc # "load" /\ ~synthetic /\ csv.status = "ok" /\ emails = <<>>)
        => /\ results = <<>>
           /\ summary = <<>>
           /\ pc # "aborted"

\* C5 as stated: Kyber reports len + 100 and McEliece the integer nearest to
\* len * 1.8.
C5_DocumentedSizes ==
    \A k \in 1..Len(results) :
        LET n == emails[results[k].id].chars
        IN  /\ results[k].alg = "Kyber" => results[k].size = n + 100
            /\ results[k].alg = "McEliece" =>
                  /\ 10 * results[k].size - 18 * n <= 5
                  /\ 18 * n - 10 * results[k].size <= 5

\* C5 amended: Kyber reports len + 100 and McEliece reports len * 1.8
\* truncated toward zero, the greatest integer not above len * 1.8.
C5_TruncatedSizes ==
    \A k \in 1..Len(results) :
        LET n == emails[results[k].id].chars
        IN  /\ results[k].alg = "Kyber" => results[k].size = n + 100
            /\ results[k].alg = "McEliece" =>
                  /\ 10 * results[k].size <= 18 * n
                  /\ 18 * n < 10 * results[k].size + 10

C5_Witness ==
    \E k \in 1..Len(results) :
        /\ results[k].alg = "McEliece"
        /\ emails[results[k].id].chars % 5 \in {1, 2}
        /\ \E m \in 1..Len(results) :
              results[m].alg = "Kyber" /\ emails[results[m].id].chars = 0

\* C7: whenever emails.csv cannot be loaded the run goes on with the
\* synthetic corpus of 20 messages.
C7_UnloadableFallsBack ==
    (csv.status # "ok" /\ pc # "load")
        => /\ synthetic
           /\ Len(emails) = 20
           /\ pc # "aborted"

\* C8: all records of one algorithm carry the same key size, quantum-resistance
\* flag and use case, whatever the message, and the algorithm's summary row
\* carries exactly those (the key size with no fractional part).
C8_StaticFieldsAgree ==
    /\ \A a \in {results[k].alg : k \in 1..Len(results)} :
          Cardinality({<<results[k].key, results[k].qr, results[k].use>> :
                          k \in {m \in 1..Len(results) : results[m].alg = a}}) = 1
    /\ \A r \in 1..Len(summary) : \A k \in 1..Len(results) :
          results[k].alg = summary[r].alg =>
              /\ summary[r].key = [whole |-> results[k].key, micro |-> 0]
              /\ summary[r].qr = results[k].qr
              /\ summary[r].use = results[k].use

C8_Witness ==
    /\ pc = "done"
    /\ Len(summary) = 4
    /\ Len(emails) = 2
    /\ emails[1].chars # emails[2].chars

TimedOrder ==
    <<"start_encrypt", "encrypt", "end_encrypt",
      "start_decrypt", "decrypt", "end_decrypt">>

InCall == pc \in {"start_encrypt", "encrypt", "end_encrypt",
                  "start_decrypt", "decrypt", "end_decrypt", "append"}

\* C9: within an adapter call the steps run in the order encryption-start
\* sample, encryption, encryption-end sample, decryption-start sample,
\* decryption, decryption-end sample; the record is appended only after the
\* last of them; and a call begins only when every earlier call's record has
\* been appended.
C9_SequentialTrials ==
    /\ Len(trace) <= Len(TimedOrder)
    /\ \A k \in 1..Len(trace) : trace[k] = TimedOrder[k]
    /\ Len(samples) = Cardinality({k \in 1..Len(trace) :
                          trace[k] \notin {"encrypt", "decrypt"}})
    /\ \A k \in 1..(Len(samples) - 1) : samples[k] <= samples[k + 1]
    /\ pc = "append" => trace = TimedOrder /\ Len(samples) = 4
    /\ InCall => Len(results) = 4 * i + (j - 1)
    /\ pc = "call" => Len(results) = 4 * i + (j - 1)
    /\ (pc = "loop" /\ Len(results) > 0) => trace = TimedOrder

C9_Witness ==
    /\ pc = "append"
    /\ Len(results) = 5
    /\ samples[1] < samples[4]

----------------------------------------------------------------------------
(* Properties of the aggregation *)

Abs(x) == IF x < 0 THEN -x ELSE x

RowsOf(a) == {k \in 1..Len(results) : results[k].alg = a}

RECURSIVE ColumnSum(_, _)
ColumnSum(S, f) ==
    IF S = {} THEN 0
    ELSE LET k == CHOOSE x \in S : TRUE
         IN  results[k][f] + ColumnSum(S \ {k}, f)

Aggregated == pc \in {"save", "done"}

StaticsDisagree ==
    \E k, m \in 1..Len(results) :
        /\ results[k].alg = results[m].alg
        /\ \/ results[k].key # results[m].key
           \/ results[k].qr # results[m].qr
           \/ results[k].use # results[m].use

C6_OneRowPerAlgorithmWithMeans ==
    Aggregated =>
        /\ {summary[r].alg : r \in 1..Len(summary)} =
              {results[k].alg : k \in 1..Len(results)}
        /\ \A r, q \in 1..Len(summary) : summary[r].alg = summary[q].alg => r = q
        /\ \A r \in 1..Len(summary) :
              LET G == RowsOf(summary[r].alg)
                  n == Cardinality(G)
              IN  /\ Abs(summary[r].enc * n - ColumnSum(G, "enc")) <= n
                  /\ Abs(summary[r].dec * n - ColumnSum(G, "dec")) <= n
                  /\ summary[r].size.micro \in 0..(Scale - 1)
                  /\ Abs((summary[r].size.whole * n - ColumnSum(G, "size")) * Scale
                         + summary[r].size.micro * n) <= n

C6_Witness ==
    /\ pc = "done"
    /\ Len(summary) = 2
    /\ \E r \in 1..Len(summary) :
          LET G == RowsOf(summary[r].alg)
          IN  /\ Cardinality(G) = 2
              /\ summary[r].enc * 2 # ColumnSum(G, "enc")
              /\ summary[r].size.micro # 0

----------------------------------------------------------------------------
(* Properties of the dashboard *)

OriginalPair == {OriginalDetailed, OriginalSummary}

BenchPair == {BenchDetailed, BenchSummary}

Rendering == dpc \in {"figures", "pdf", "done"} \/ written # {}

\* C10: unless the original pair or the benchmark pair of tables is completely
\* present the dashboard writes no chart and no PDF and ends after printing
\* that no benchmark data was found; and whenever it renders, df_detailed and
\* df_summary were read from the same pair.
C10_FailFastOnMissingInputs ==
    /\ (~(OriginalPair \subseteq fs) /\ ~(BenchPair \subseteq fs)) => ~Rendering
    /\ dpc = "returned" =>
          /\ written = {}
          /\ dout[Len(dout)] = "No benchmark data found. Please run the benchmark script first."
    /\ Rendering =>
          \/ dfDetailed = OriginalDetailed /\ dfSummary = OriginalSummary
          \/ dfDetailed = BenchDetailed /\ dfSummary = BenchSummary

C10_Witness ==
    /\ dpc = "returned"
    /\ OriginalDetailed \in fs
    /\ BenchSummary \in fs
    /\ dfDetailed = OriginalDetailed

====
